---- MODULE Spec2Model ----
(***************************************************************************)
(* IOI-style contest ranking (src/ioi_judge.cpp) and the problem master   *)
(* judge that reduces the per-test verdicts of one submission to a status  *)
(* and a score (src/problem_judge.cpp).                                    *)
(*                                                                         *)
(* The program reads a problem catalog, a user catalog and a number of     *)
(* submission series; for every series it aggregates the submissions into  *)
(* one Result per (problem set, user), scores and sorts the Results of     *)
(* every problem set and writes one ranking table per problem set.         *)
(*                                                                         *)
(* Numbers.  A double is modelled as a record [w, e] that stands for the   *)
(* real number  w * unit + e * fine,  where `fine` is many orders of       *)
(* magnitude below `unit` and e stays small, so that order and the         *)
(* epsilon tests are decided on w first and on e only when the w agree.    *)
(*   score       w in percent,                 e in thirds of EPS          *)
(*   points      an integer number of tenths of a point                    *)
(*   totalscore  w in thousandths of a point,  e in 1/3000 of EPS          *)
(* Sums, differences and points * (score / 100.) are exact in these        *)
(* units; the rounding of IEEE doubles is not modelled.                    *)
(* Problem set names are modelled by integers whose order is the order of  *)
(* the names in the std::map.                                              *)
(***************************************************************************)
EXTENDS Integers, Sequences, FiniteSets, TLC

VARIABLES
    pc,             \* position of main()
    pr_n,           \* declared number of problem records
    problems,       \* vector<Problem>
    prob_id2idx,    \* map problem id -> index into problems (0-based)
    problem_sets,   \* map problem set -> vector of indices into problems
    u_n,            \* declared number of user records
    users,          \* keys of the user catalog
    subm_s,         \* declared number of submission series
    j,              \* index of the current series
    subm_n,         \* declared number of submissions of the current series
    consumed,       \* the submission records of the current series read so far
    results,        \* map problem set -> map user id -> Result
    ps_it,          \* number of problem sets of the current series already rendered
    tables,         \* the ranking tables written for the current series
    ntables,        \* number of ranking tables written so far
    out_header,     \* the leading table count written to the output (-1: not written)
    out_diag,       \* the diagnostic written to the output
    exit_status,    \* exit status of the process (-1: still running)
    \* src/problem_judge.cpp
    pj_pc,          \* position of the problem judge's main()
    tests,          \* the statuses of the test lines read so far
    tc,             \* number of test lines read
    scoreAll,       \* number of accepted tests
    allOK,          \* no test line with another status so far
    statusBad,      \* the status copied from a test line that is not accepted
    spoj_score      \* the report line written to spoj_score

judgeVars == <<pj_pc, tests, tc, scoreAll, allOK, statusBad, spoj_score>>

mainVars == <<pc, pr_n, problems, prob_id2idx, problem_sets, u_n, users, subm_s, j,
              subm_n, consumed, results, ps_it, tables, ntables, out_header,
              out_diag, exit_status>>

vars == <<mainVars, judgeVars>>

(***************************************************************************)
(* Program constants                                                       *)
(***************************************************************************)
EPS == 3
INCORRECT_SUBMISSION_PENALTY == 10
UNSOLVED == 0
FULLY_SOLVED == 1
PARTIALLY_SOLVED == 2

(***************************************************************************)
(* Bounds of the model                                                     *)
(***************************************************************************)
MaxProblems == 2
MaxUsers == 2
MaxSnapshots == 2
MaxSubs == 1
MaxScoreSubs == 3
MaxRankSubs == 3
MaxTests == 3              \* test lines the problem judge reads
MaxCellSubs == 3           \* submissions of a series in the cell runs

(***************************************************************************)
(* Numbers                                                                 *)
(***************************************************************************)
Num(w, e) == [w |-> w, e |-> e]
Zero == Num(0, 0)
Hundred == Num(100, 0)
NumAdd(a, b) == Num(a.w + b.w, a.e + b.e)
NumSub(a, b) == Num(a.w - b.w, a.e - b.e)
NumLess(a, b) == a.w < b.w \/ (a.w = b.w /\ a.e < b.e)
Abs(x) == IF x < 0 THEN -x ELSE x
Max(a, b) == IF a < b THEN b ELSE a

\* fabs(d) < eps and fabs(d) > eps, eps counted in the units of d.e
FabsLess(d, eps) == d.w = 0 /\ Abs(d.e) < eps
FabsGreater(d, eps) == d.w # 0 \/ Abs(d.e) > eps

\* EPS in the units of totalscore.e: points (tenths) * score.e (thirds of EPS) / 100
TotalEPS == 1000 * EPS

\* points * (score / 100.)
Earned(points, score) == Num(points * score.w, points * score.e)

\* printf("%.2f"): a value in thousandths of a point rounded to hundredths
Fmt2(v) == (v.w + 5) \div 10

(***************************************************************************)
(* Maps                                                                    *)
(***************************************************************************)
EmptyMap == <<>>
Put(m, k, v) == IF k \in DOMAIN m THEN [m EXCEPT ![k] = v] ELSE m @@ (k :> v)

(***************************************************************************)
(* Records of the domain model                                             *)
(***************************************************************************)
NewUserProblem ==
    [solved |-> UNSOLVED, tries |-> 0, failed_tries |-> 0, score |-> Zero,
     time |-> 0, date |-> 0]

NewResult ==
    [userid |-> 0, numsolved |-> 0, last_solved |-> 0, totalscore |-> Zero,
     penalty |-> 0, prob |-> EmptyMap]

\* Submission::Submission: a score within EPS of 100 becomes exactly 100
NewSubmission(rec) ==
    [rec EXCEPT !.score = IF FabsLess(NumSub(Hundred, rec.score), EPS)
                          THEN Hundred ELSE rec.score]

\* Variant: the point value is not validated
ProblemErrorCategoryOnly(rec) ==
    IF rec.opt # 0 THEN "IllegalProblemCategory" ELSE ""

\* Problem::Problem: the exception the record raises, "" when it is valid
ProblemError(rec) ==
    IF rec.opt # 0 THEN "IllegalProblemCategory"
    ELSE IF ~rec.pointsOk THEN "IllFormattedPointValue"
    ELSE ""

\* the fields of a Problem; pointsOk records that sscanf read the point value
NewProblem(rec) ==
    [id |-> rec.id, opt |-> rec.opt, pset |-> rec.pset, starttime |-> rec.starttime,
     points |-> rec.points, pointsOk |-> rec.pointsOk]

(***************************************************************************)
(* Catalog loader (main, problems and users)                               *)
(***************************************************************************)
\* one iteration of the problem loop on a valid record
AddProblem(cat, rec) ==
    LET i == Len(cat.problems)
        old == IF rec.pset \in DOMAIN cat.problem_sets
               THEN cat.problem_sets[rec.pset] ELSE <<>>
    IN  [problems |-> Append(cat.problems, NewProblem(rec)),
         prob_id2idx |-> Put(cat.prob_id2idx, rec.id, i),
         problem_sets |-> Put(cat.problem_sets, rec.pset, Append(old, i))]

EmptyCatalog ==
    [problems |-> <<>>, prob_id2idx |-> EmptyMap, problem_sets |-> EmptyMap]

NoDiag == [kind |-> "", id |-> 0, ordinal |-> 0, of |-> 0]

\* the page the catch block writes
Diagnostic(kind, rec, i, n) == [kind |-> kind, id |-> rec.id, ordinal |-> i + 1, of |-> n]

(***************************************************************************)
(* Aggregation of one submission (main, the submission loop)               *)
(***************************************************************************)
\* Variant: the test of the user id is missing
KnownUserAny(us, uid) == TRUE

\* users.find(s.userid) != users.end()
KnownUser(us, uid) == uid \in us

\* prob_id2idx[s.problemid]: std::map::operator[] inserts an absent key with
\* the value 0 and returns it
IdxLookup(idx, pid) == IF pid \in DOMAIN idx THEN idx[pid] ELSE 0
IdxAfterLookup(idx, pid) == IF pid \in DOMAIN idx THEN idx ELSE idx @@ (pid :> 0)

\* fabs(100. - s.score) < EPS
IsFull(score) == FabsLess(NumSub(Hundred, score), EPS)

\* Variants of the update of uprob with a plausible slip: the record is not
\* frozen once fully solved; failed_tries is counted outside the test of the
\* solved state; the best score is kept instead of the latest.
UpdateUserProblemUnfrozen(uprob, s, prob) ==
    LET t == [uprob EXCEPT !.tries = @ + 1]
        u == IF IsFull(s.score)
             THEN [t EXCEPT !.solved = FULLY_SOLVED]
             ELSE [t EXCEPT !.solved = PARTIALLY_SOLVED, !.failed_tries = @ + 1]
    IN  [u EXCEPT !.score = s.score,
                  !.date = s.timestamp,
                  !.time = s.timestamp - prob.starttime]

UpdateUserProblemCountsLate(uprob, s, prob) ==
    LET t == [uprob EXCEPT !.tries = @ + 1,
                           !.failed_tries = IF IsFull(s.score) THEN @ ELSE @ + 1]
        u == IF IsFull(s.score)
             THEN [t EXCEPT !.solved = FULLY_SOLVED]
             ELSE [t EXCEPT !.solved = PARTIALLY_SOLVED]
    IN  IF t.solved # FULLY_SOLVED
        THEN [u EXCEPT !.score = s.score,
                       !.date = s.timestamp,
                       !.time = s.timestamp - prob.starttime]
        ELSE t

UpdateUserProblemKeepsBest(uprob, s, prob) ==
    LET t == [uprob EXCEPT !.tries = @ + 1]
        u == IF IsFull(s.score)
             THEN [t EXCEPT !.solved = FULLY_SOLVED]
             ELSE [t EXCEPT !.solved = PARTIALLY_SOLVED, !.failed_tries = @ + 1]
    IN  IF t.solved # FULLY_SOLVED /\ ~NumLess(s.score, t.score)
        THEN [u EXCEPT !.score = s.score,
                       !.date = s.timestamp,
                       !.time = s.timestamp - prob.starttime]
        ELSE IF t.solved # FULLY_SOLVED THEN [u EXCEPT !.score = t.score]
        ELSE t

\* Variant: tries is counted only while the problem is not fully solved
UpdateUserProblemTriesStop(uprob, s, prob) ==
    LET t == [uprob EXCEPT !.tries = @ + 1]
        u == IF IsFull(s.score)
             THEN [t EXCEPT !.solved = FULLY_SOLVED]
             ELSE [t EXCEPT !.solved = PARTIALLY_SOLVED, !.failed_tries = @ + 1]
    IN  IF uprob.solved # FULLY_SOLVED
        THEN [u EXCEPT !.score = s.score,
                       !.date = s.timestamp,
                       !.time = s.timestamp - prob.starttime]
        ELSE uprob

\* the update of uprob
UpdateUserProblem(uprob, s, prob) ==
    LET t == [uprob EXCEPT !.tries = @ + 1]
        u == IF IsFull(s.score)
             THEN [t EXCEPT !.solved = FULLY_SOLVED]
             ELSE [t EXCEPT !.solved = PARTIALLY_SOLVED, !.failed_tries = @ + 1]
    IN  IF t.solved # FULLY_SOLVED
        THEN [u EXCEPT !.score = s.score,
                       !.date = s.timestamp,
                       !.time = s.timestamp - prob.starttime]
        ELSE t

\* Variant: numsolved is counted for every submission that scores 100
SolvesNowEachTime(uprob, s) == IsFull(s.score)

\* res.numsolved++ happens when the problem was not fully solved and s scores 100
SolvesNow(uprob, s) == uprob.solved # FULLY_SOLVED /\ IsFull(s.score)

\* the update of res
UpdateResult(res, s, prob) ==
    LET uprob == IF s.problemid \in DOMAIN res.prob
                 THEN res.prob[s.problemid] ELSE NewUserProblem
    IN  [res EXCEPT !.userid = s.userid,
                    !.numsolved = IF SolvesNow(uprob, s) THEN @ + 1 ELSE @,
                    !.prob = Put(@, s.problemid, UpdateUserProblem(uprob, s, prob))]

\* the body of the submission loop on the record rec; agg is the pair of the
\* maps it writes
Aggregate(agg, probs, us, rec) ==
    LET s == NewSubmission(rec) IN
    IF ~KnownUser(us, s.userid) THEN agg
    ELSE LET prob == probs[IdxLookup(agg.prob_id2idx, s.problemid) + 1]
             mres == IF prob.pset \in DOMAIN agg.results
                     THEN agg.results[prob.pset] ELSE EmptyMap
             res  == IF s.userid \in DOMAIN mres THEN mres[s.userid] ELSE NewResult
         IN  [results |-> Put(agg.results, prob.pset,
                              Put(mres, s.userid, UpdateResult(res, s, prob))),
              prob_id2idx |-> IdxAfterLookup(agg.prob_id2idx, s.problemid)]

(***************************************************************************)
(* Ranking and scoring (main, the problem set loop)                        *)
(***************************************************************************)
\* Variant: only fully solved problems are scored
ScoreProblemFullOnly(res, prob) ==
    IF prob.id \in DOMAIN res.prob /\ res.prob[prob.id].solved = FULLY_SOLVED
    THEN LET up == res.prob[prob.id] IN
         [res EXCEPT !.totalscore = NumAdd(@, Earned(prob.points, up.score)),
                     !.penalty = @ + up.failed_tries * INCORRECT_SUBMISSION_PENALTY * 60,
                     !.last_solved = Max(@, up.time)]
    ELSE res

\* one iteration of the per-problem loop of a Result
ScoreProblem(res, prob) ==
    IF prob.id \in DOMAIN res.prob /\ res.prob[prob.id].solved # UNSOLVED
    THEN LET up == res.prob[prob.id] IN
         [res EXCEPT !.totalscore = NumAdd(@, Earned(prob.points, up.score)),
                     !.penalty = @ + up.failed_tries * INCORRECT_SUBMISSION_PENALTY * 60,
                     !.last_solved = Max(@, up.time)]
    ELSE res

RECURSIVE ScoreLoop(_, _, _, _)
ScoreLoop(res, probs, vprob, k) ==
    IF k = 0 THEN res
    ELSE ScoreProblem(ScoreLoop(res, probs, vprob, k - 1), probs[vprob[k] + 1])

\* the per-problem loop, then res.penalty += res.last_solved
ScoreResult(res, probs, vprob) ==
    LET r == ScoreLoop(res, probs, vprob, Len(vprob))
    IN  [r EXCEPT !.penalty = @ + r.last_solved]

\* Variant: the comparison ends with numsolved, without the user id
LessNoUserId(a, r) ==
    IF FabsGreater(NumSub(a.totalscore, r.totalscore), TotalEPS)
    THEN NumLess(r.totalscore, a.totalscore)
    ELSE IF a.penalty # r.penalty THEN a.penalty < r.penalty
    ELSE IF a.last_solved # r.last_solved THEN a.last_solved < r.last_solved
    ELSE a.numsolved > r.numsolved

\* Result::operator<
Less(a, r) ==
    IF FabsGreater(NumSub(a.totalscore, r.totalscore), TotalEPS)
    THEN NumLess(r.totalscore, a.totalscore)
    ELSE IF a.penalty # r.penalty THEN a.penalty < r.penalty
    ELSE IF a.last_solved # r.last_solved THEN a.last_solved < r.last_solved
    ELSE IF a.numsolved # r.numsolved THEN a.numsolved > r.numsolved
    ELSE a.userid < r.userid

RECURSIVE Perms(_)
Perms(S) ==
    IF S = {} THEN {<<>>}
    ELSE UNION {{<<x>> \o p : p \in Perms(S \ {x})} : x \in S}

\* sort(vres.begin(), vres.end()): the orders the call can leave vres in.
\* std::sort places every element by insertion steps that stop at an element
\* it is not less than, so no row is less than the row above it.  When
\* operator< is a strict weak ordering on the elements these are the sorted
\* orders; when it is not, the call has undefined behaviour and every order
\* without such an adjacent pair is an outcome.
SortOutcomes(S) ==
    {p \in Perms(S) : \A i \in 1..(Len(p) - 1) : ~Less(p[i + 1], p[i])}

(***************************************************************************)
(* Report renderer (main, the row loop)                                    *)
(***************************************************************************)
\* Variant: the rank also changes when the penalty differs from prev_penalty
RECURSIVE RankOfWithPenalty(_, _)
RankOfWithPenalty(vres, i) ==
    LET prev == IF i = 1 THEN Zero ELSE vres[i - 1].totalscore
        prevp == IF i = 1 THEN 0 ELSE vres[i - 1].penalty
        rank == IF i = 1 THEN 1 ELSE RankOfWithPenalty(vres, i - 1)
    IN  IF NumLess(vres[i].totalscore, NumSub(prev, Num(0, TotalEPS)))
           \/ vres[i].penalty # prevp
        THEN i ELSE rank

\* the rank printed in row i: rank starts at 1, prev_score at 0.0
RECURSIVE RankOf(_, _)
RankOf(vres, i) ==
    LET prev == IF i = 1 THEN Zero ELSE vres[i - 1].totalscore
        rank == IF i = 1 THEN 1 ELSE RankOf(vres, i - 1)
    IN  IF NumLess(vres[i].totalscore, NumSub(prev, Num(0, TotalEPS)))
        THEN i ELSE rank

\* Variant: a problem that is not fully solved gets the cell "-"
CellFullOnly(res, prob) ==
    IF prob.id \in DOMAIN res.prob /\ res.prob[prob.id].solved = FULLY_SOLVED
    THEN [dash |-> FALSE, val |-> Fmt2(Earned(prob.points, res.prob[prob.id].score))]
    ELSE [dash |-> TRUE, val |-> 0]

\* the cell of a problem: "-" or the earned score
Cell(res, prob) ==
    IF prob.id \in DOMAIN res.prob
    THEN [dash |-> FALSE, val |-> Fmt2(Earned(prob.points, res.prob[prob.id].score))]
    ELSE [dash |-> TRUE, val |-> 0]

Row(vres, i, probs, vprob) ==
    [rank |-> RankOf(vres, i),
     userid |-> vres[i].userid,
     cells |-> [k \in 1..Len(vprob) |-> Cell(vres[i], probs[vprob[k] + 1])],
     total |-> Fmt2(vres[i].totalscore)]

Table(ps, vres, probs, vprob) ==
    [pset |-> ps,
     fields |-> 3 + Len(vprob),
     header |-> [k \in 1..Len(vprob) |->
                    [id |-> probs[vprob[k] + 1].id, points |-> probs[vprob[k] + 1].points]],
     nrows |-> Len(vres),
     rows |-> [i \in 1..Len(vres) |-> Row(vres, i, probs, vprob)]]

\* the k-th key of problem_sets in the order of the map
NthPset(psets, k) ==
    CHOOSE ps \in DOMAIN psets : Cardinality({q \in DOMAIN psets : q < ps}) = k - 1

\* results[ps_it->first]: operator[] inserts an empty map for an absent key
ResultsOf(res, ps) == IF ps \in DOMAIN res THEN res[ps] ELSE EmptyMap

\* the Results of a problem set after the scoring loop
ScoredResults(mres, probs, vprob) ==
    [u \in DOMAIN mres |-> ScoreResult(mres[u], probs, vprob)]

(***************************************************************************)
(* Problem master judge (src/problem_judge.cpp, main)                      *)
(***************************************************************************)
\* status codes of a test line, as the characters fscanf("%3s") stores
AC == <<"A", "C">>
StatusCodes == {AC, <<"W", "A">>, <<"T", "L", "E">>, <<"R", "E">>}

\* status[0]=='A'
Accepted(status) == status[1] = "A"

\* 100.*scoreAll/tc printed with %.2lf, in hundredths of a percent; 0./0 is
\* not a number
Percent(accepted, total) ==
    IF total = 0 THEN [nan |-> TRUE, val |-> 0]
    ELSE [nan |-> FALSE, val |-> (20000 * accepted + total) \div (2 * total)]

NoReport == [status |-> <<>>, score |-> [nan |-> FALSE, val |-> 0], written |-> FALSE]

\* the locals of main() before the loop; statusBad is not initialised and is
\* not read before it is written
JudgeStart ==
    /\ pj_pc = "reading"
    /\ tests = <<>>
    /\ tc = 0
    /\ scoreAll = 0
    /\ allOK = TRUE
    /\ statusBad = <<>>
    /\ spoj_score = NoReport

\* one iteration of the while loop: fscanf returned 6
ReadTest(status) ==
    /\ pj_pc = "reading"
    /\ tc < MaxTests
    /\ tests' = Append(tests, status)
    /\ IF Accepted(status)
       THEN scoreAll' = scoreAll + 1 /\ UNCHANGED <<allOK, statusBad>>
       ELSE allOK' = FALSE /\ statusBad' = status /\ UNCHANGED scoreAll
    /\ tc' = tc + 1
    /\ UNCHANGED <<pj_pc, spoj_score>>
    /\ UNCHANGED mainVars

\* fscanf did not return 6: the report line is written
Report ==
    /\ pj_pc = "reading"
    /\ pj_pc' = "done"
    /\ spoj_score' = [status |-> IF allOK THEN AC ELSE statusBad,
                      score |-> Percent(scoreAll, tc),
                      written |-> TRUE]
    /\ UNCHANGED <<tests, tc, scoreAll, allOK, statusBad>>
    /\ UNCHANGED mainVars

(***************************************************************************)
(* Contest ranking (src/ioi_judge.cpp, main)                               *)
(***************************************************************************)
Init ==
    /\ pc = "start"
    /\ pr_n = 0
    /\ problems = <<>>
    /\ prob_id2idx = EmptyMap
    /\ problem_sets = EmptyMap
    /\ u_n = 0
    /\ users = {}
    /\ subm_s = 0
    /\ j = 0
    /\ subm_n = 0
    /\ consumed = <<>>
    /\ results = EmptyMap
    /\ ps_it = 0
    /\ tables = <<>>
    /\ ntables = 0
    /\ out_header = -1
    /\ out_diag = NoDiag
    /\ exit_status = -1
    /\ JudgeStart

\* fscanf(input, "%d %d\n", &pr_n, &pr_l)
ReadProblemCount(n) ==
    /\ pc = "start"
    /\ pc' = "problems"
    /\ pr_n' = n
    /\ UNCHANGED <<problems, prob_id2idx, problem_sets, u_n, users, subm_s, j,
                   subm_n, consumed, results, ps_it, tables, ntables,
                   out_header, out_diag, exit_status>>
    /\ UNCHANGED judgeVars

\* one iteration of the problem loop: the record is added to the catalog, or
\* the diagnostic is written and main returns 1
LoadProblem(rec) ==
    /\ pc = "problems"
    /\ Len(problems) < pr_n
    /\ \A k \in 1..Len(problems) : problems[k].id # rec.id
    /\ IF ProblemError(rec) = ""
       THEN LET cat == AddProblem([problems |-> problems, prob_id2idx |-> prob_id2idx,
                                   problem_sets |-> problem_sets], rec)
            IN  /\ problems' = cat.problems
                /\ prob_id2idx' = cat.prob_id2idx
                /\ problem_sets' = cat.problem_sets
                /\ UNCHANGED <<pc, out_diag, exit_status>>
       ELSE /\ out_diag' = Diagnostic(ProblemError(rec), rec, Len(problems), pr_n)
            /\ exit_status' = 1
            /\ pc' = "exit"
            /\ UNCHANGED <<problems, prob_id2idx, problem_sets>>
    /\ UNCHANGED <<pr_n, u_n, users, subm_s, j, subm_n, consumed, results, ps_it,
                   tables, ntables, out_header>>
    /\ UNCHANGED judgeVars

\* fscanf(input, "%d %d\n", &u_n, &u_l)
ReadUserCount(n) ==
    /\ pc = "problems"
    /\ Len(problems) = pr_n
    /\ pc' = "users"
    /\ u_n' = n
    /\ UNCHANGED <<pr_n, problems, prob_id2idx, problem_sets, users, subm_s, j,
                   subm_n, consumed, results, ps_it, tables, ntables,
                   out_header, out_diag, exit_status>>
    /\ UNCHANGED judgeVars

\* one iteration of the user loop
LoadUser(id) ==
    /\ pc = "users"
    /\ Cardinality(users) < u_n
    /\ id \notin users
    /\ users' = users \cup {id}
    /\ UNCHANGED <<pc, pr_n, problems, prob_id2idx, problem_sets, u_n, subm_s, j,
                   subm_n, consumed, results, ps_it, tables, ntables,
                   out_header, out_diag, exit_status>>
    /\ UNCHANGED judgeVars

\* fscanf(input, "%d %d\n", &subm_s, &subm_l) and the number of rankings
ReadSeriesCount(s) ==
    /\ pc = "users"
    /\ Cardinality(users) = u_n
    /\ pc' = "series"
    /\ subm_s' = s
    /\ j' = 0
    /\ out_header' = s * Cardinality(DOMAIN problem_sets)
    /\ UNCHANGED <<pr_n, problems, prob_id2idx, problem_sets, u_n, users, subm_n,
                   consumed, results, ps_it, tables, ntables, out_diag,
                   exit_status>>
    /\ UNCHANGED judgeVars

\* Variant: the series loop does not clear results
BeginSeriesKeepsResults(n) ==
    /\ pc = "series"
    /\ j < subm_s
    /\ pc' = "submissions"
    /\ subm_n' = n
    /\ consumed' = <<>>
    /\ ps_it' = 0
    /\ tables' = <<>>
    /\ UNCHANGED <<pr_n, problems, prob_id2idx, problem_sets, u_n, users, subm_s,
                   j, results, ntables, out_header, out_diag, exit_status>>
    /\ UNCHANGED judgeVars

\* the head of an iteration of the series loop: results.clear(), subm_n
BeginSeries(n) ==
    /\ pc = "series"
    /\ j < subm_s
    /\ pc' = "submissions"
    /\ results' = EmptyMap
    /\ subm_n' = n
    /\ consumed' = <<>>
    /\ ps_it' = 0
    /\ tables' = <<>>
    /\ UNCHANGED <<pr_n, problems, prob_id2idx, problem_sets, u_n, users, subm_s,
                   j, ntables, out_header, out_diag, exit_status>>
    /\ UNCHANGED judgeVars

\* one iteration of the submission loop
Submit(rec) ==
    /\ pc = "submissions"
    /\ Len(consumed) < subm_n
    /\ LET agg == Aggregate([results |-> results, prob_id2idx |-> prob_id2idx],
                            problems, users, rec)
       IN  /\ results' = agg.results
           /\ prob_id2idx' = agg.prob_id2idx
    /\ consumed' = Append(consumed, rec)
    /\ UNCHANGED <<pc, pr_n, problems, problem_sets, u_n, users, subm_s, j,
                   subm_n, ps_it, tables, ntables, out_header, out_diag,
                   exit_status>>
    /\ UNCHANGED judgeVars

\* one iteration of the problem set loop: score, sort, rank and print
EmitTable ==
    /\ pc = "submissions"
    /\ Len(consumed) = subm_n
    /\ ps_it < Cardinality(DOMAIN problem_sets)
    /\ LET ps == NthPset(problem_sets, ps_it + 1)
           vprob == problem_sets[ps]
           mres == ScoredResults(ResultsOf(results, ps), problems, vprob)
       IN  /\ results' = Put(results, ps, mres)
           /\ \E vres \in SortOutcomes({mres[u] : u \in DOMAIN mres}) :
                 tables' = Append(tables, Table(ps, vres, problems, vprob))
    /\ ps_it' = ps_it + 1
    /\ ntables' = ntables + 1
    /\ UNCHANGED <<pc, pr_n, problems, prob_id2idx, problem_sets, u_n, users,
                   subm_s, j, subm_n, consumed, out_header, out_diag,
                   exit_status>>
    /\ UNCHANGED judgeVars

\* the end of an iteration of the series loop
EndSeries ==
    /\ pc = "submissions"
    /\ Len(consumed) = subm_n
    /\ ps_it = Cardinality(DOMAIN problem_sets)
    /\ pc' = "series"
    /\ j' = j + 1
    /\ UNCHANGED <<pr_n, problems, prob_id2idx, problem_sets, u_n, users, subm_s,
                   subm_n, consumed, results, ps_it, tables, ntables,
                   out_header, out_diag, exit_status>>
    /\ UNCHANGED judgeVars

\* fclose(output); return 0
Finish ==
    /\ pc = "series"
    /\ j = subm_s
    /\ pc' = "exit"
    /\ exit_status' = 0
    /\ UNCHANGED <<pr_n, problems, prob_id2idx, problem_sets, u_n, users, subm_s,
                   j, subm_n, consumed, results, ps_it, tables, ntables,
                   out_header, out_diag>>
    /\ UNCHANGED judgeVars

(***************************************************************************)
(* The inputs of the whole run                                             *)
(***************************************************************************)
PsetOfId(id) == ((id + 1) % 2) + 1
PointsOfId(id) == IF id = 1 THEN 1000 ELSE IF id = 2 THEN 500 ELSE 5
StartOfId(id) == IF id = 2 THEN 2 ELSE 0

ProblemRecord(id, opt, ok) ==
    [id |-> id, opt |-> opt, pointsOk |-> ok, pset |-> PsetOfId(id),
     starttime |-> StartOfId(id), points |-> PointsOfId(id)]

ProblemInputs ==
    {ProblemRecord(id, opt, ok) : id \in 1..MaxProblems, opt \in {0, 1}, ok \in BOOLEAN}

SubmissionRecord(u, p, t, sc) ==
    [userid |-> u, problemid |-> p, timestamp |-> t, score |-> sc]

SubmissionInputs ==
    {SubmissionRecord(u, p, 5, sc) :
        u \in 1..MaxUsers, p \in 1..MaxProblems, sc \in {Hundred, Num(60, 0)}}

Next ==
    \/ \E n \in 1..MaxProblems : ReadProblemCount(n)
    \/ \E rec \in ProblemInputs : LoadProblem(rec)
    \/ \E n \in 0..MaxUsers : ReadUserCount(n)
    \/ \E id \in 1..MaxUsers : LoadUser(id)
    \/ \E s \in 0..MaxSnapshots : ReadSeriesCount(s)
    \/ \E n \in 0..MaxSubs : BeginSeries(n)
    \/ \E rec \in SubmissionInputs : Submit(rec)
    \/ EmitTable
    \/ EndSeries
    \/ Finish

Spec == Init /\ [][Next]_vars

(***************************************************************************)
(* Runs over a loaded catalog.  The catalog is the one the loader builds   *)
(* from the valid records of the problems 3, 1, 2 in this order: problems  *)
(* 3 and 1 form problem set 1, problem 2 forms problem set 2.              *)
(***************************************************************************)
RECURSIVE LoadAll(_, _)
LoadAll(recs, k) ==
    IF k = 0 THEN EmptyCatalog ELSE AddProblem(LoadAll(recs, k - 1), recs[k])

LoadedRecords == <<ProblemRecord(3, 0, TRUE), ProblemRecord(1, 0, TRUE), ProblemRecord(2, 0, TRUE)>>
LoadedCatalog == LoadAll(LoadedRecords, Len(LoadedRecords))

\* the state of main() after the user loop, with the users us
Loaded(us) ==
    /\ pc = "users"
    /\ pr_n = Len(LoadedRecords)
    /\ problems = LoadedCatalog.problems
    /\ prob_id2idx = LoadedCatalog.prob_id2idx
    /\ problem_sets = LoadedCatalog.problem_sets
    /\ u_n = Cardinality(us)
    /\ users = us
    /\ subm_s = 0
    /\ j = 0
    /\ subm_n = 0
    /\ consumed = <<>>
    /\ results = EmptyMap
    /\ ps_it = 0
    /\ tables = <<>>
    /\ ntables = 0
    /\ out_header = -1
    /\ out_diag = NoDiag
    /\ exit_status = -1
    /\ JudgeStart

\* Scoring runs: users 1 and 2 are registered, user 7 is not; no problem has
\* the id 9.  Problem 2 starts at time 2, the others at time 0.
ScoreInputs ==
    {SubmissionRecord(1, 1, 1, Hundred), SubmissionRecord(1, 1, 3, Num(100, -1)),
     SubmissionRecord(1, 1, 1, Num(100, -4)), SubmissionRecord(1, 1, 3, Num(60, 0)),
     SubmissionRecord(1, 1, 1, Num(40, 0)),
     SubmissionRecord(1, 3, 1, Num(60, 0)), SubmissionRecord(1, 3, 3, Hundred),
     SubmissionRecord(1, 2, 1, Num(60, 0)),
     SubmissionRecord(1, 9, 1, Hundred),
     SubmissionRecord(2, 1, 3, Hundred),
     SubmissionRecord(7, 1, 1, Hundred)}

InitScore == Loaded({1, 2})

NextScore ==
    \/ \E s \in 1..MaxSnapshots : ReadSeriesCount(s)
    \/ \E n \in 0..MaxScoreSubs : BeginSeries(n)
    \/ \E rec \in ScoreInputs : Submit(rec)
    \/ EmitTable
    \/ EndSeries
    \/ Finish

SpecScore == InitScore /\ [][NextScore]_vars

\* Ranking runs: users 1, 2 and 3 submit to problem 1 (100 points); the scores
\* 60, 60 + 2/3 EPS and 60 + 4/3 EPS differ by less than EPS from one to the
\* next and by more than EPS from the first to the last.  User 3 submits these
\* one second earlier than the others.
RankInputs ==
    {SubmissionRecord(u, 1, IF u = 3 THEN 1 ELSE 2, sc) :
        u \in 1..3, sc \in {Num(60, 0), Num(60, 2), Num(60, 4)}}
    \cup {SubmissionRecord(u, 1, 3, Hundred) : u \in 1..3}

InitRank == Loaded({1, 2, 3})

NextRank ==
    \/ ReadSeriesCount(1)
    \/ \E n \in 0..MaxRankSubs : BeginSeries(n)
    \/ \E rec \in RankInputs : Submit(rec)
    \/ EmitTable
    \/ EndSeries
    \/ Finish

SpecRank == InitRank /\ [][NextRank]_vars

\* Cell runs: problems 3 and 5 form problem set 1 and are worth 0.5 points
\* each, so that a score of 33 earns 0.165 points, which is not a whole number
\* of hundredths.
CellRecords == <<ProblemRecord(3, 0, TRUE), ProblemRecord(5, 0, TRUE)>>
CellCatalog == LoadAll(CellRecords, Len(CellRecords))

CellInputs ==
    {SubmissionRecord(u, p, 1, sc) :
        u \in {1, 2}, p \in {3, 5}, sc \in {Num(33, 0), Hundred}}

\* the state of main() after the user loop, with the users 1 and 2
InitCells ==
    /\ pc = "users"
    /\ pr_n = Len(CellRecords)
    /\ problems = CellCatalog.problems
    /\ prob_id2idx = CellCatalog.prob_id2idx
    /\ problem_sets = CellCatalog.problem_sets
    /\ u_n = Cardinality({1, 2})
    /\ users = {1, 2}
    /\ subm_s = 0
    /\ j = 0
    /\ subm_n = 0
    /\ consumed = <<>>
    /\ results = EmptyMap
    /\ ps_it = 0
    /\ tables = <<>>
    /\ ntables = 0
    /\ out_header = -1
    /\ out_diag = NoDiag
    /\ exit_status = -1
    /\ JudgeStart

NextCells ==
    \/ ReadSeriesCount(1)
    \/ \E n \in 0..MaxCellSubs : BeginSeries(n)
    \/ \E rec \in CellInputs : Submit(rec)
    \/ EmitTable
    \/ EndSeries
    \/ Finish

SpecCells == InitCells /\ [][NextCells]_vars

\* Runs of the problem judge on up to MaxTests test lines
NextJudge ==
    \/ \E status \in StatusCodes : ReadTest(status)
    \/ Report

SpecJudge == Init /\ [][NextJudge]_vars

(***************************************************************************)
(* What the claims speak of                                                *)
(***************************************************************************)
\* a score within epsilon of 100, and the score a Submission carries for it
Near100(sc) == sc.w = 100 /\ -EPS < sc.e /\ sc.e < EPS
Carried(sc) == IF Near100(sc) THEN Hundred ELSE sc

\* the positions in the series read so far of the submissions of user u for problem p
PairSubs(u, p) ==
    {k \in 1..Len(consumed) : consumed[k].userid = u /\ consumed[k].problemid = p}
SeenProblems == {consumed[k].problemid : k \in 1..Len(consumed)}
Min(S) == CHOOSE x \in S : \A y \in S : x <= y
Last(S) == CHOOSE x \in S : \A y \in S : y <= x
FullSubs(u, p) == {k \in PairSubs(u, p) : Near100(consumed[k].score)}

\* the problem sets whose Result of user u holds a UserProblem for problem p
Holders(u, p) ==
    {ps \in DOMAIN results :
        u \in DOMAIN results[ps] /\ p \in DOMAIN results[ps][u].prob}
\* all (problem set, user, problem) with a UserProblem
Entries ==
    {e \in UNION {UNION {{<<ps, u, p>> : p \in DOMAIN results[ps][u].prob} :
                            u \in DOMAIN results[ps]} : ps \in DOMAIN results} : TRUE}
UserProblemOf(e) == results[e[1]][e[2]].prob[e[3]]
CatalogIds == {problems[k].id : k \in 1..Len(problems)}
ProblemOfId(p) == CHOOSE pr \in {problems[k] : k \in 1..Len(problems)} : pr.id = p

\* the step reads one more submission of the current series
ReadsSubmission == Len(consumed') = Len(consumed) + 1 /\ pc = "submissions"

(***************************************************************************)
(* C1.  Once the UserProblem of a (user, problem) pair is FullySolved, a   *)
(* further submission of that user for that problem in the same series     *)
(* adds 1 to tries and leaves score, date, time, solved, failed_tries and  *)
(* the numsolved of the owning Result unchanged, whatever its score.       *)
(***************************************************************************)
C1_FrozenStep ==
    \A e \in Entries :
        ( /\ UserProblemOf(e).solved = FULLY_SOLVED
          /\ ReadsSubmission
          /\ consumed'[Len(consumed')].userid = e[2]
          /\ consumed'[Len(consumed')].problemid = e[3] )
        => /\ e[1] \in DOMAIN results'
           /\ e[2] \in DOMAIN results'[e[1]]
           /\ e[3] \in DOMAIN results'[e[1]][e[2]].prob
           /\ results'[e[1]][e[2]].prob[e[3]]
                 = [UserProblemOf(e) EXCEPT !.tries = @ + 1]
           /\ results'[e[1]][e[2]].numsolved = results[e[1]][e[2]].numsolved

C1_Frozen == [][C1_FrozenStep]_vars

\* a fully solved pair has received a later submission that does not score 100
C1_Witness ==
    \E e \in Entries :
        /\ UserProblemOf(e).solved = FULLY_SOLVED
        /\ pc = "submissions"
        /\ Len(consumed) >= 2
        /\ consumed[Len(consumed)].userid = e[2]
        /\ consumed[Len(consumed)].problemid = e[3]
        /\ ~Near100(consumed[Len(consumed)].score)
        /\ FullSubs(e[2], e[3]) # {}
        /\ UserProblemOf(e).tries >= 2

(***************************************************************************)
(* C2.  For every pair of a known user and a problem, the UserProblem is   *)
(* FullySolved exactly from the first submission within epsilon of 100 on  *)
(* (so that it makes the transition at most once), and the numsolved of a  *)
(* Result is the number of its problems that received at least one such    *)
(* submission, not the number of such submissions.                         *)
(***************************************************************************)
C2_SolvedOnce ==
    /\ \A u \in users : \A p \in SeenProblems :
          PairSubs(u, p) # {} =>
             /\ Cardinality(Holders(u, p)) = 1
             /\ \A ps \in Holders(u, p) :
                   (results[ps][u].prob[p].solved = FULLY_SOLVED) <=> (FullSubs(u, p) # {})
    /\ \A ps \in DOMAIN results : \A u \in DOMAIN results[ps] :
          results[ps][u].numsolved
             = Cardinality({p \in DOMAIN results[ps][u].prob : FullSubs(u, p) # {}})

\* a pair has received two submissions that score 100
C2_Witness ==
    \E e \in Entries :
        /\ Cardinality(FullSubs(e[2], e[3])) >= 2
        /\ results[e[1]][e[2]].numsolved = 1

(***************************************************************************)
(* C3.  failed_tries of a UserProblem is the number of submissions of the  *)
(* pair that do not score 100 and come before its first submission that    *)
(* scores 100, or the number of all its submissions when none scores 100.  *)
(***************************************************************************)
FailedBeforeFull(u, p) ==
    {k \in PairSubs(u, p) :
        /\ ~Near100(consumed[k].score)
        /\ \A f \in FullSubs(u, p) : k < f}

C3_FailedTries ==
    \A e \in Entries :
        UserProblemOf(e).failed_tries = Cardinality(FailedBeforeFull(e[2], e[3]))

\* a failed submission before and another after the first submission that scores 100
C3_Witness ==
    \E e \in Entries :
        /\ FullSubs(e[2], e[3]) # {}
        /\ \E k \in PairSubs(e[2], e[3]) :
              ~Near100(consumed[k].score) /\ k > Min(FullSubs(e[2], e[3]))
        /\ UserProblemOf(e).failed_tries = 1

(***************************************************************************)
(* C4.  The recorded score, date and time offset of a pair are those of    *)
(* its first submission that scores 100 if there is one and of its last    *)
(* submission otherwise; the pair is PartiallySolved exactly when it has a *)
(* submission and none scores 100.                                         *)
(***************************************************************************)
Deciding(u, p) ==
    IF FullSubs(u, p) # {} THEN Min(FullSubs(u, p)) ELSE Last(PairSubs(u, p))

C4_Recorded ==
    /\ \A e \in Entries :
          LET s == consumed[Deciding(e[2], e[3])]
              up == UserProblemOf(e)
          IN  /\ PairSubs(e[2], e[3]) # {}
              /\ up.score = Carried(s.score)
              /\ up.date = s.timestamp
              /\ e[3] \in CatalogIds =>
                    up.time = s.timestamp - ProblemOfId(e[3]).starttime
              /\ (up.solved = PARTIALLY_SOLVED) <=> (FullSubs(e[2], e[3]) = {})
    /\ \A u \in users : \A p \in SeenProblems :
          PairSubs(u, p) # {} => Holders(u, p) # {}

\* a higher score followed by a lower one, none of them 100: the lower is recorded
C4_Witness ==
    \E e \in Entries :
        /\ FullSubs(e[2], e[3]) = {}
        /\ \E k \in PairSubs(e[2], e[3]) :
              NumLess(UserProblemOf(e).score, consumed[k].score)
        /\ UserProblemOf(e).solved = PARTIALLY_SOLVED

(***************************************************************************)
(* C5.  After scoring, the total score of a Result is the sum, over the    *)
(* problems of its problem set the user submitted to, of points * recorded *)
(* score / 100; problems without submission add nothing, and neither the   *)
(* order of the problems nor tries or failed_tries enter.                  *)
(***************************************************************************)
RECURSIVE SumEarned(_, _)
SumEarned(P, res) ==
    IF P = {} THEN Zero
    ELSE LET pr == CHOOSE x \in P : TRUE
         IN  NumAdd(Earned(pr.points, res.prob[pr.id].score), SumEarned(P \ {pr}, res))

\* the problems of the problem set ps the Result res has a submission for
Touched(ps, res) ==
    {pr \in {problems[k] : k \in 1..Len(problems)} :
        pr.pset = ps /\ pr.id \in DOMAIN res.prob}

\* the problem sets already scored in the current series
ScoredPsets ==
    {ps \in DOMAIN problem_sets :
        Cardinality({q \in DOMAIN problem_sets : q < ps}) < ps_it}

C5_TotalScore ==
    \A ps \in ScoredPsets :
        /\ ps \in DOMAIN results
        /\ \A u \in DOMAIN results[ps] :
              results[ps][u].totalscore = SumEarned(Touched(ps, results[ps][u]), results[ps][u])

\* a scored Result of a problem set of two problems, one partially solved at
\* the second try and one fully solved: 100 * 60 / 100 + 0.5 * 100 / 100 points
C5_Witness ==
    \E ps \in ScoredPsets : \E u \in DOMAIN results[ps] :
        LET res == results[ps][u] IN
        /\ Cardinality(Touched(ps, res)) = 2
        /\ \E pr \in Touched(ps, res) :
              res.prob[pr.id].solved = PARTIALLY_SOLVED /\ res.prob[pr.id].tries = 2
        /\ \E pr \in Touched(ps, res) : res.prob[pr.id].solved = FULLY_SOLVED
        /\ res.totalscore = Num(60500, 0)

(***************************************************************************)
(* C6.  Result::operator< is transitive on the Results of a problem set:   *)
(* A < B and B < C imply A < C, also for total scores that differ by less  *)
(* than epsilon.                                                           *)
(***************************************************************************)
ResultsIn(ps) == {results[ps][u] : u \in DOMAIN results[ps]}

C6_Transitive ==
    \A ps \in DOMAIN results : \A a, b, c \in ResultsIn(ps) :
        Less(a, b) /\ Less(b, c) => Less(a, c)

(***************************************************************************)
(* C7.  In every table, the rank of the first row is 1 and the rank of a   *)
(* later row is the rank of the row above it when its total score is       *)
(* within epsilon of that row's total score, and its position otherwise;   *)
(* penalty, last_solved and numsolved do not enter.                        *)
(***************************************************************************)
WithinEps(a, b) == a.w = b.w /\ a.e - b.e <= TotalEPS /\ b.e - a.e <= TotalEPS
TotalOfRow(t, i) == results[t.pset][t.rows[i].userid].totalscore

C7_RankRule ==
    \A n \in 1..Len(tables) :
        LET t == tables[n] IN
        \A i \in 1..t.nrows :
            t.rows[i].rank =
                IF i = 1 THEN 1
                ELSE IF WithinEps(TotalOfRow(t, i), TotalOfRow(t, i - 1))
                     THEN t.rows[i - 1].rank
                     ELSE i

\* a table whose second row has rank 2 and whose third row shares that rank
\* with a total score within epsilon and another penalty
C7_Witness ==
    \E n \in 1..Len(tables) :
        LET t == tables[n] IN
        /\ t.nrows = 3
        /\ t.rows[2].rank = 2
        /\ t.rows[3].rank = 2
        /\ TotalOfRow(t, 3) # TotalOfRow(t, 2)
        /\ results[t.pset][t.rows[3].userid].penalty
              # results[t.pset][t.rows[2].userid].penalty

(***************************************************************************)
(* The outcome of a series as a function of its submissions                *)
(***************************************************************************)
RECURSIVE Replay(_, _)
Replay(seq, k) ==
    IF k = 0 THEN [results |-> EmptyMap, prob_id2idx |-> prob_id2idx]
    ELSE Aggregate(Replay(seq, k - 1), problems, users, seq[k])

RECURSIVE ScoredUpTo(_, _)
ScoredUpTo(res, n) ==
    IF n = 0 THEN res
    ELSE LET r == ScoredUpTo(res, n - 1)
             ps == NthPset(problem_sets, n)
         IN  Put(r, ps, ScoredResults(ResultsOf(r, ps), problems, problem_sets[ps]))

\* the Results after the submissions seq and the scoring of the first n problem sets
Outcome(seq, n) == ScoredUpTo(Replay(seq, Len(seq)).results, n)

\* the tables the run can write for the n-th problem set
PossibleTables(res, n) ==
    LET ps == NthPset(problem_sets, n) IN
    {Table(ps, vres, problems, problem_sets[ps]) :
        vres \in SortOutcomes({res[ps][u] : u \in DOMAIN res[ps]})}

SameAsFor(seq) ==
    LET out == Outcome(seq, ps_it) IN
    /\ results = out
    /\ \A n \in 1..Len(tables) : tables[n] \in PossibleTables(out, n)

(***************************************************************************)
(* C8.  Submissions of a user id that is not in the user catalog add       *)
(* nothing: the Results and the tables of the series are those of the      *)
(* series without these submissions, and no Result and no row exists for   *)
(* such a user id.                                                         *)
(***************************************************************************)
OfKnownUser(s) == s.userid \in users

C8_UnknownUser ==
    /\ SameAsFor(SelectSeq(consumed, OfKnownUser))
    /\ \A ps \in DOMAIN results : DOMAIN results[ps] \subseteq users
    /\ \A n \in 1..Len(tables) : \A i \in 1..tables[n].nrows :
          tables[n].rows[i].userid \in users

\* the tables of a series with submissions of the unregistered user and a row
C8_Witness ==
    /\ ps_it = Cardinality(DOMAIN problem_sets)
    /\ \E k \in 1..Len(consumed) : ~OfKnownUser(consumed[k])
    /\ \E k \in 1..Len(consumed) : OfKnownUser(consumed[k])
    /\ \E n \in 1..Len(tables) : tables[n].nrows >= 1

(***************************************************************************)
(* C9.  A submission of a known user for a problem id that is not in the   *)
(* problem catalog is discarded: it creates no Result and no UserProblem   *)
(* and adds no row, and the Results and tables of the series are those of  *)
(* the series without it.                                                  *)
(***************************************************************************)
OfCatalogProblem(s) == s.problemid \in CatalogIds

C9_UnknownProblem ==
    /\ SameAsFor(SelectSeq(consumed, OfCatalogProblem))
    /\ \A e \in Entries : e[3] \in CatalogIds

(***************************************************************************)
(* C10.  A problem record with a non-classical category or an unparsable   *)
(* point value aborts the run at the first such record: only the           *)
(* diagnostic is written (no table count, no table), no user and no        *)
(* submission is processed and the exit status is not 0; when all problem  *)
(* records are valid the exit status is 0.                                 *)
(***************************************************************************)
C10_Abort ==
    /\ \A k \in 1..Len(problems) : problems[k].opt = 0 /\ problems[k].pointsOk
    /\ exit_status \in {-1, 0, 1}
    /\ exit_status = 1 =>
          /\ pc = "exit"
          /\ out_diag.kind \in {"IllegalProblemCategory", "IllFormattedPointValue"}
          /\ out_diag.ordinal = Len(problems) + 1
          /\ out_diag.of = pr_n
          /\ Len(problems) < pr_n
          /\ out_header = -1
          /\ ntables = 0 /\ tables = <<>>
          /\ users = {} /\ u_n = 0
          /\ consumed = <<>> /\ results = EmptyMap
    /\ out_diag # NoDiag => exit_status = 1
    /\ pc \notin {"start", "problems", "exit"} => Len(problems) = pr_n /\ exit_status = -1
    /\ (pc = "exit" /\ Len(problems) = pr_n) =>
          exit_status = 0 /\ out_diag = NoDiag /\ out_header >= 0

\* the run aborted at its second problem record, on the point value
C10_Witness ==
    /\ exit_status = 1
    /\ Len(problems) = 1
    /\ out_diag.kind = "IllFormattedPointValue"
    /\ out_diag.ordinal = 2

(***************************************************************************)
(* C11.  In every table the rows are in decreasing order of total score:   *)
(* no row has a total score that exceeds the total score of a row above it *)
(* by more than epsilon.                                                   *)
(***************************************************************************)
ExceedsByEps(a, b) == FabsGreater(NumSub(a, b), TotalEPS) /\ NumLess(b, a)

C11_Descending ==
    \A n \in 1..Len(tables) :
        LET t == tables[n] IN
        \A i, k \in 1..t.nrows :
            i < k => ~ExceedsByEps(TotalOfRow(t, k), TotalOfRow(t, i))

(***************************************************************************)
(* C12.  On a run that exits with status 0 the leading integer of the      *)
(* output is the number of series times the number of problem sets and as  *)
(* many tables are written: every series writes one table for every       *)
(* problem set, in the order of the problem set names, and the table of a  *)
(* problem set that received no submission in the series has 0 rows.       *)
(***************************************************************************)
NumPsets == Cardinality(DOMAIN problem_sets)

\* the submissions of the series read so far that name a problem of the set ps
ReceivedBy(ps) ==
    {k \in 1..Len(consumed) :
        /\ consumed[k].problemid \in CatalogIds
        /\ ProblemOfId(consumed[k].problemid).pset = ps}

\* the number of tables and their order
TablesPerSeries ==
    /\ (pc \in {"series", "submissions"} \/ exit_status = 0) =>
          out_header = subm_s * NumPsets
    /\ exit_status = 0 => ntables = out_header
    /\ pc = "series" => ntables = j * NumPsets
    /\ pc = "submissions" => ntables = j * NumPsets + ps_it /\ Len(tables) = ps_it
    /\ \A n \in 1..Len(tables) : tables[n].pset \in DOMAIN problem_sets
    /\ \A n, m \in 1..Len(tables) : n < m => tables[n].pset < tables[m].pset

C12_TableCount ==
    /\ TablesPerSeries
    /\ \A n \in 1..Len(tables) :
          ReceivedBy(tables[n].pset) = {} => tables[n].nrows = 0

(***************************************************************************)
(* C13.  For every sequence of test verdicts, the empty one included, the  *)
(* problem judge reports AC exactly when every test was accepted and       *)
(* otherwise a status that one of the tests has and that is not accepted;  *)
(* the reported score is the percentage 100 * accepted / total, a number   *)
(* between 0 and 100 that is 100 exactly when the status is AC.            *)
(***************************************************************************)
AcceptedTests == {k \in 1..Len(tests) : tests[k] = AC}

C13_ProblemJudge ==
    spoj_score.written =>
        /\ (spoj_score.status = AC) <=> (\A k \in 1..Len(tests) : tests[k] = AC)
        /\ spoj_score.status # AC =>
              \E k \in 1..Len(tests) : tests[k] = spoj_score.status /\ tests[k] # AC
        /\ ~spoj_score.score.nan
        /\ 0 <= spoj_score.score.val /\ spoj_score.score.val <= 10000
        /\ \E q \in 0..10000 :
              /\ spoj_score.score.val = q
              /\ 2 * Len(tests) * q <= 20000 * Cardinality(AcceptedTests) + Len(tests)
              /\ 20000 * Cardinality(AcceptedTests) - Len(tests) < 2 * Len(tests) * q
        /\ (spoj_score.score.val = 10000) <=> (spoj_score.status = AC)

(***************************************************************************)
(* C14.  After scoring, the last_solved of a Result is the maximum of the  *)
(* time offsets (timestamp minus start of the problem) of the problems of  *)
(* the set the user submitted to, and its penalty is 600 times the sum of  *)
(* their failed_tries plus last_solved, added once; this for every time    *)
(* offset, also of a submission stamped before the start of the problem.   *)
(***************************************************************************)
MaxOf(S) == CHOOSE x \in S : \A y \in S : y <= x

RECURSIVE SumFailed(_, _)
SumFailed(P, res) ==
    IF P = {} THEN 0
    ELSE LET pr == CHOOSE x \in P : TRUE
         IN  res.prob[pr.id].failed_tries + SumFailed(P \ {pr}, res)

\* the time offsets of the recorded submissions of the touched problems
Offsets(ps, res) == {res.prob[pr.id].time : pr \in Touched(ps, res)}

C14_Penalty ==
    \A ps \in ScoredPsets :
        ps \in DOMAIN results /\
        \A u \in DOMAIN results[ps] :
            LET res == results[ps][u] IN
            Touched(ps, res) # {} =>
                /\ res.last_solved = MaxOf(Offsets(ps, res))
                /\ res.penalty = 600 * SumFailed(Touched(ps, res), res) + res.last_solved

\* What the code computes: last_solved starts at 0 and only grows, so it is
\* the maximum of 0 and the time offsets of the touched problems; the penalty
\* is 600 times the sum of their failed_tries plus this last_solved, added once.
PenaltyFromZero ==
    \A ps \in ScoredPsets :
        ps \in DOMAIN results /\
        \A u \in DOMAIN results[ps] :
            LET res == results[ps][u] IN
            /\ res.last_solved = MaxOf(Offsets(ps, res) \cup {0})
            /\ res.penalty = 600 * SumFailed(Touched(ps, res), res) + res.last_solved

(***************************************************************************)
(* C15.  The Results and the tables of a series are a function of the      *)
(* catalogs and of the submissions of this series alone: they are what the *)
(* freshly loaded catalogs and empty Results give for these submissions,   *)
(* whatever the earlier series contained (submissions of unknown users and *)
(* for unknown problems included); no Result or UserProblem survives from  *)
(* one series to the next.                                                 *)
(***************************************************************************)
RECURSIVE ReplayFrom(_, _, _)
ReplayFrom(idx, seq, k) ==
    IF k = 0 THEN [results |-> EmptyMap, prob_id2idx |-> idx]
    ELSE Aggregate(ReplayFrom(idx, seq, k - 1), problems, users, seq[k])

\* the outcome of the series seq on the catalogs as loaded
FreshOutcome(seq, n) ==
    ScoredUpTo(ReplayFrom(LoadedCatalog.prob_id2idx, seq, Len(seq)).results, n)

C15_SnapshotLocal ==
    /\ LET out == FreshOutcome(consumed, ps_it) IN
       /\ results = out
       /\ \A n \in 1..Len(tables) : tables[n] \in PossibleTables(out, n)
    /\ (pc = "submissions" /\ consumed = <<>>) =>
          \A ps \in DOMAIN results : DOMAIN results[ps] = {}

\* the second series has written a table with a row, after a first series
\* that held a submission for a problem id outside the catalog
C15_Witness ==
    /\ j = 1
    /\ pc = "submissions"
    /\ DOMAIN prob_id2idx # DOMAIN LoadedCatalog.prob_id2idx
    /\ \A k \in 1..Len(consumed) : consumed[k].problemid \in CatalogIds
    /\ \E n \in 1..Len(tables) : tables[n].nrows >= 1

(***************************************************************************)
(* C16.  Once the catalogs are loaded, no series and no submission changes *)
(* the problem catalog, the problem id index, the problem set index or the *)
(* user catalog, also when a submission has a user id or a problem id that *)
(* is not in the catalogs.                                                 *)
(***************************************************************************)
C16_CatalogsFrozen ==
    /\ problems = LoadedCatalog.problems
    /\ prob_id2idx = LoadedCatalog.prob_id2idx
    /\ problem_sets = LoadedCatalog.problem_sets
    /\ users = {1, 2}

(***************************************************************************)
(* C17.  In every row of every table the cell of a problem is "-" exactly  *)
(* when the user of the row has no submission for the problem in the       *)
(* series, and otherwise shows points * recorded score / 100, for a        *)
(* partially solved problem as for a fully solved one; the total score of  *)
(* the row equals the sum of its cells that are not "-".                   *)
(***************************************************************************)
\* v is the amount x (in thousandths of a point) printed with %.2f, in hundredths
Shows(v, x) == 10 * v - 5 <= x.w /\ x.w < 10 * v + 5

\* the problem of column k of the table t
ColumnProblem(t, k) == ProblemOfId(t.header[k].id)

\* the earned score behind the cell of column k in row i of the table t
EarnedInCell(t, i, k) ==
    Earned(ColumnProblem(t, k).points,
           Carried(consumed[Deciding(t.rows[i].userid, t.header[k].id)].score))

RECURSIVE SumCells(_, _)
SumCells(cells, k) ==
    IF k = 0 THEN 0
    ELSE SumCells(cells, k - 1) + (IF cells[k].dash THEN 0 ELSE cells[k].val)

RECURSIVE SumEarnedInCells(_, _, _)
SumEarnedInCells(t, i, k) ==
    IF k = 0 THEN Zero
    ELSE NumAdd(SumEarnedInCells(t, i, k - 1),
                IF t.rows[i].cells[k].dash THEN Zero ELSE EarnedInCell(t, i, k))

\* the cells of every row
CellsShown ==
    \A n \in 1..Len(tables) :
        LET t == tables[n] IN
        \A i \in 1..t.nrows : \A k \in 1..Len(t.header) :
            LET c == t.rows[i].cells[k] IN
            /\ c.dash <=> (PairSubs(t.rows[i].userid, t.header[k].id) = {})
            /\ ~c.dash => Shows(c.val, EarnedInCell(t, i, k))

C17_CellsAddUp ==
    /\ CellsShown
    /\ \A n \in 1..Len(tables) : \A i \in 1..tables[n].nrows :
          LET row == tables[n].rows[i] IN
          row.total = SumCells(row.cells, Len(row.cells))

\* C17 as the code has it: the cells as above; the total score of the row
\* shows the sum of the earned scores of its cells that are not "-", which
\* is rounded once, while the cells are rounded one by one.
C17_TotalOfEarned ==
    /\ CellsShown
    /\ \A n \in 1..Len(tables) : \A i \in 1..tables[n].nrows :
          LET t == tables[n] IN
          Shows(t.rows[i].total, SumEarnedInCells(t, i, Len(t.header)))

\* a row with a partially solved problem (0.165 points, shown as 0.17), a
\* fully solved problem (0.50) and the total 0.67 (0.665)
C17_Witness ==
    \E n \in 1..Len(tables) : \E i \in 1..tables[n].nrows :
        LET row == tables[n].rows[i] IN
        /\ Len(row.cells) = 2
        /\ \E k \in 1..2 : ~row.cells[k].dash /\ row.cells[k].val = 17
        /\ \E k \in 1..2 : ~row.cells[k].dash /\ row.cells[k].val = 50
        /\ row.total = 67
        /\ results[tables[n].pset][row.userid].numsolved = 1

(***************************************************************************)
(* C18.  Result::operator< is irreflexive, and total on the Results of     *)
(* different users: of two Results with different user ids exactly one is  *)
(* less than the other, and no Result is less than itself, so that no two  *)
(* rows of a table compare as equivalent.                                  *)
(***************************************************************************)
C18_TotalIrreflexive ==
    /\ \A ps \in DOMAIN results : \A a, b \in ResultsIn(ps) :
          /\ ~Less(a, a)
          /\ a.userid # b.userid => (Less(a, b) <=> ~Less(b, a))
          /\ a # b => a.userid # b.userid
    /\ \A n \in 1..Len(tables) : \A i, k \in 1..tables[n].nrows :
          i # k => tables[n].rows[i].userid # tables[n].rows[k].userid

\* two scored Results that agree in total score, penalty, last_solved and
\* numsolved: the user id decides
C18_Witness ==
    \E ps \in ScoredPsets : \E a, b \in ResultsIn(ps) :
        /\ a.userid < b.userid
        /\ a.totalscore = b.totalscore /\ a.totalscore # Zero
        /\ a.penalty = b.penalty
        /\ a.last_solved = b.last_solved
        /\ a.numsolved = b.numsolved
        /\ Less(a, b) /\ ~Less(b, a)

(***************************************************************************)
(* C19.  After every submission step, every UserProblem stored in a Result *)
(* has tries >= 1, is PartiallySolved or FullySolved (never Unsolved), has *)
(* failed_tries <= tries, and failed_tries = tries exactly when it is not  *)
(* FullySolved; tries is the number of submissions of its user for its     *)
(* problem read so far in the series.  Within a series a UserProblem never *)
(* goes from FullySolved to PartiallySolved, nor back to Unsolved.         *)
(***************************************************************************)
C19_Stored ==
    \A e \in Entries :
        LET up == UserProblemOf(e) IN
        /\ up.tries >= 1
        /\ up.solved \in {PARTIALLY_SOLVED, FULLY_SOLVED}
        /\ up.failed_tries <= up.tries
        /\ (up.failed_tries = up.tries) <=> (up.solved # FULLY_SOLVED)
        /\ e[2] \in users
        /\ up.tries = Cardinality(PairSubs(e[2], e[3]))

\* a step inside a series keeps every UserProblem and does not take its state back
C19_NoWayBack ==
    \A e \in Entries :
        (pc = "submissions" /\ pc' = "submissions") =>
            /\ e[1] \in DOMAIN results'
            /\ e[2] \in DOMAIN results'[e[1]]
            /\ e[3] \in DOMAIN results'[e[1]][e[2]].prob
            /\ results'[e[1]][e[2]].prob[e[3]].solved # UNSOLVED
            /\ UserProblemOf(e).solved = FULLY_SOLVED =>
                  results'[e[1]][e[2]].prob[e[3]].solved = FULLY_SOLVED

C19_UserProblemStates == []C19_Stored /\ [][C19_NoWayBack]_vars

\* a fully solved UserProblem with a failed try before and a submission
\* below 100 after the one that solved it
C19_Witness ==
    \E e \in Entries :
        /\ UserProblemOf(e).solved = FULLY_SOLVED
        /\ UserProblemOf(e).tries = 3
        /\ UserProblemOf(e).failed_tries = 1
        /\ ~Near100(consumed[Last(PairSubs(e[2], e[3]))].score)

(***************************************************************************)
(* C20.  Problem sets are ranked independently: the Results and the table  *)
(* of a problem set are those of the series without the submissions for    *)
(* the problems of the other problem sets, and a user has a row in the     *)
(* table of a problem set only with a submission for one of its problems.  *)
(***************************************************************************)
\* the series read so far without the submissions for problems of other sets than ps
WithoutOtherSets(ps) ==
    LET Stays(s) == s.problemid \in CatalogIds => ProblemOfId(s.problemid).pset = ps
    IN  SelectSeq(consumed, Stays)

\* the Results and the table of every problem set do not depend on the
\* submissions for the problems of the other problem sets
SetsIndependent ==
    \A ps \in DOMAIN problem_sets :
        LET out == Outcome(WithoutOtherSets(ps), ps_it) IN
        /\ ResultsOf(results, ps) = ResultsOf(out, ps)
        /\ \A n \in 1..Len(tables) :
              tables[n].pset = ps => tables[n] \in PossibleTables(out, n)

C20_Independent ==
    /\ SetsIndependent
    /\ \A n \in 1..Len(tables) : \A i \in 1..tables[n].nrows :
          \E k \in ReceivedBy(tables[n].pset) :
              consumed[k].userid = tables[n].rows[i].userid

====
